---- MODULE Spec2Model ----
\* A model of src/BloomFilter.py: a Bloom filter with three hash functions
\* (md5, sha1, sha256), each indexing its own bit array of `size` cells.
\*
\* Python values are modelled as follows.
\*   - a list is a function with domain 0..len-1 (Python's 0-based indices);
\*   - a str is a sequence of Unicode code points, bytes a sequence of 0..255;
\*   - an item is a record: a str object or an int object;
\*   - an operation that can raise yields a record [exc, ...]: exc = "none" when
\*     it completes, the exception's class name when it raises.
EXTENDS Integers, Sequences, FiniteSets, TLC

VARIABLES
    size,        \* self.size
    bit_arrays,  \* self.bit_arrays: three lists of cells
    op,          \* the call made last: <<"__init__">>, <<"add", item>>, <<"check", item>>
    ret,         \* what that call returned: "None", "True" or "False"
    error,       \* the exception that call raised, "none" when it returned
    hashes,      \* the list _hashes returned to that call (empty when none was returned)
    ctor_args,   \* the arguments the constructor was called with: <<>> or <<size>>
    added,       \* history: the items whose add has completed
    pre_added,   \* history: `added` before the call made last
    shared_bits  \* the single bit array of the shared layout, given the same calls

vars ==
    <<size, bit_arrays, op, ret, error, hashes, ctor_args, added, pre_added,
      shared_bits>>

-----------------------------------------------------------------------------
\* Bounds of the model.

\* Sizes -MaxNegSize .. MaxSmallSize are given to the constructor, besides the
\* two sizes the source names.
MaxNegSize == 5
MaxSmallSize == 4

\* Program constants.
DefaultSize == 100      \* def __init__(self, size=100)
DemoSize == 50          \* bf = BloomFilter(size=50)
NumArrays == 3          \* for _ in range(3)

Sizes == ((0 - MaxNegSize) .. MaxSmallSize) \cup {DemoSize, DefaultSize}

-----------------------------------------------------------------------------
\* Items.

StrItem(s) == [kind |-> "str", chars |-> s, n |-> 0]
IntItem(i) == [kind |-> "int", chars |-> <<>>, n |-> i]

Google == StrItem(<<103, 111, 111, 103, 108, 101>>)                  \* "google"
Openai == StrItem(<<111, 112, 101, 110, 97, 105>>)                   \* "openai"
Microsoft == StrItem(<<109, 105, 99, 114, 111, 115, 111, 102, 116>>) \* "microsoft"
StrOne == StrItem(<<49>>)                                            \* "1"
IntOne == IntItem(1)                                                 \* 1
EAcute == StrItem(<<233>>)                                           \* "\u00e9"
LoneSurrogate == StrItem(<<55296>>)                                  \* "\ud800"

Items == {Google, Openai, Microsoft, StrOne, IntOne, EAcute, LoneSurrogate}

-----------------------------------------------------------------------------
\* Python built-ins used by the source.

\* len(lst)
len(lst) == Cardinality(DOMAIN lst)

\* [value] * n: n copies of value, the empty list when n <= 0
list_repeat(value, n) == [p \in 0 .. (n - 1) |-> value]

\* [a, b, c]
list3(a, b, c) == (0 :> a) @@ (1 :> b) @@ (2 :> c)

\* lst[i] is defined for -len(lst) <= i < len(lst); a negative i counts from the end
index_ok(lst, i) == (0 - len(lst)) <= i /\ i < len(lst)
index_norm(lst, i) == IF i < 0 THEN i + len(lst) ELSE i

\* str(n) of an int: its decimal digits, with a leading "-" when negative
RECURSIVE nat_str(_)
nat_str(n) ==
    IF n < 10 THEN <<48 + n>> ELSE Append(nat_str(n \div 10), 48 + (n % 10))

int_str(n) == IF n < 0 THEN <<45>> \o nat_str(0 - n) ELSE nat_str(n)

\* str(item)
str(item) == IF item.kind = "str" THEN item.chars ELSE int_str(item.n)

\* The UTF-8 encoding of one code point; a surrogate (U+D800..U+DFFF) has none.
utf8_char(c) ==
    IF c < 128 THEN <<c>>
    ELSE IF c < 2048 THEN <<192 + (c \div 64), 128 + (c % 64)>>
    ELSE IF c < 65536 THEN
        <<224 + (c \div 4096), 128 + ((c \div 64) % 64), 128 + (c % 64)>>
    ELSE
        <<240 + (c \div 262144), 128 + ((c \div 4096) % 64),
          128 + ((c \div 64) % 64), 128 + (c % 64)>>

is_surrogate(c) == 55296 <= c /\ c <= 57343

\* s.encode('utf-8'): raises UnicodeEncodeError on a surrogate
RECURSIVE utf8_from(_, _)
utf8_from(s, i) ==
    IF i > Len(s) THEN [exc |-> "none", val |-> <<>>]
    ELSE IF is_surrogate(s[i]) THEN [exc |-> "UnicodeEncodeError", val |-> <<>>]
    ELSE LET rest == utf8_from(s, i + 1)
         IN  IF rest.exc # "none" THEN rest
             ELSE [exc |-> "none", val |-> utf8_char(s[i]) \o rest.val]

encode_utf8(s) == utf8_from(s, 1)

\* The value of one hexadecimal character
hex_digit(c) ==
    IF 48 <= c /\ c <= 57 THEN c - 48
    ELSE IF 97 <= c /\ c <= 102 THEN c - 87
    ELSE c - 55

\* (16 ^ k) % m for m > 0, by repeated squaring
RECURSIVE pow16_mod(_, _)
pow16_mod(k, m) ==
    IF k = 0 THEN 1 % m
    ELSE LET h == pow16_mod(k \div 2, m)
         IN  IF k % 2 = 0 THEN (h * h) % m ELSE (((h * h) % m) * 16) % m

\* int(s[lo..hi], 16) % m for m > 0. The number has up to 256 bits, so it is
\* reduced half by half: int(left ++ right) = int(left) * 16^len(right) + int(right).
RECURSIVE hex_mod_range(_, _, _, _)
hex_mod_range(s, lo, hi, m) ==
    IF lo > hi THEN 0
    ELSE IF lo = hi THEN hex_digit(s[lo]) % m
    ELSE LET mid == (lo + hi) \div 2
         IN  (hex_mod_range(s, lo, mid, m) * pow16_mod(hi - mid, m)
              + hex_mod_range(s, mid + 1, hi, m)) % m

\* int16_mod reducing by m + 1 instead of m when m > 0 (an off-by-one modulus)
int16_mod_off_by_one(s, m) ==
    IF m = 0 THEN [exc |-> "ZeroDivisionError", val |-> 0]
    ELSE IF m > 0 THEN [exc |-> "none", val |-> hex_mod_range(s, 1, Len(s), m + 1)]
    ELSE LET r == hex_mod_range(s, 1, Len(s), 0 - m)
         IN  [exc |-> "none", val |-> IF r = 0 THEN 0 ELSE r + m]

\* int(s, 16) % m as Python computes it: ZeroDivisionError when m = 0, and a
\* result with the sign of m otherwise.
int16_mod(s, m) ==
    IF m = 0 THEN [exc |-> "ZeroDivisionError", val |-> 0]
    ELSE IF m > 0 THEN [exc |-> "none", val |-> hex_mod_range(s, 1, Len(s), m)]
    ELSE LET r == hex_mod_range(s, 1, Len(s), 0 - m)
         IN  [exc |-> "none", val |-> IF r = 0 THEN 0 ELSE r + m]

\* hashlib.md5(data).hexdigest(): the digest as a string of lower-case hexadecimal
\* characters (code points), tabulated for the byte strings of Items.
md5_hexdigest(data) ==
    CASE data = <<103,111,111,103,108,101>> ->   \* 'google': c822c1b63853ed273b89687ac505f9fa
           <<99,56,50,50,99,49,98,54,51,56,53,51,101,100,50,55,51,98,56,57,54,56,55,97,99,53,48,53,
             102,57,102,97>>
      [] data = <<111,112,101,110,97,105>> ->   \* 'openai': 2c6ee24b09816a6f14f95d1698b24ead
           <<50,99,54,101,101,50,52,98,48,57,56,49,54,97,54,102,49,52,102,57,53,100,49,54,57,56,98,
             50,52,101,97,100>>
      [] data = <<109,105,99,114,111,115,111,102,116>> ->   \* 'microsoft': 5f532a3fc4f1ea403f37070f59a7a53a
           <<53,102,53,51,50,97,51,102,99,52,102,49,101,97,52,48,51,102,51,55,48,55,48,102,53,57,97,
             55,97,53,51,97>>
      [] data = <<49>> ->   \* '1': c4ca4238a0b923820dcc509a6f75849b
           <<99,52,99,97,52,50,51,56,97,48,98,57,50,51,56,50,48,100,99,99,53,48,57,97,54,102,55,53,
             56,52,57,98>>
      [] data = <<195,169>> ->   \* U+00E9: 66ddcd97cfdeabb2f6fb8a999b4bc76f
           <<54,54,100,100,99,100,57,55,99,102,100,101,97,98,98,50,102,54,102,98,56,97,57,57,57,98,
             52,98,99,55,54,102>>
      [] OTHER -> <<>>

\* hashlib.sha1(data).hexdigest(): the digest as a string of lower-case hexadecimal
\* characters (code points), tabulated for the byte strings of Items.
sha1_hexdigest(data) ==
    CASE data = <<103,111,111,103,108,101>> ->   \* 'google': 759730a97e4373f3a0ee12805db065e3a4a649a5
           <<55,53,57,55,51,48,97,57,55,101,52,51,55,51,102,51,97,48,101,101,49,50,56,48,53,100,98,
             48,54,53,101,51,97,52,97,54,52,57,97,53>>
      [] data = <<111,112,101,110,97,105>> ->   \* 'openai': 7d3bbb5cbbc497d78ad547d8d39cbea2b3b8b69e
           <<55,100,51,98,98,98,53,99,98,98,99,52,57,55,100,55,56,97,100,53,52,55,100,56,100,51,57,
             99,98,101,97,50,98,51,98,56,98,54,57,101>>
      [] data = <<109,105,99,114,111,115,111,102,116>> ->   \* 'microsoft': 64814a3b7fd8444a56ad3641fd3451c6deaf0757
           <<54,52,56,49,52,97,51,98,55,102,100,56,52,52,52,97,53,54,97,100,51,54,52,49,102,100,51,
             52,53,49,99,54,100,101,97,102,48,55,53,55>>
      [] data = <<49>> ->   \* '1': 356a192b7913b04c54574d18c28d46e6395428ab
           <<51,53,54,97,49,57,50,98,55,57,49,51,98,48,52,99,53,52,53,55,52,100,49,56,99,50,56,100,
             52,54,101,54,51,57,53,52,50,56,97,98>>
      [] data = <<195,169>> ->   \* U+00E9: bf15be717ac1b080b4f1c456692825891ff5073d
           <<98,102,49,53,98,101,55,49,55,97,99,49,98,48,56,48,98,52,102,49,99,52,53,54,54,57,50,56,
             50,53,56,57,49,102,102,53,48,55,51,100>>
      [] OTHER -> <<>>

\* hashlib.sha256(data).hexdigest(): the digest as a string of lower-case hexadecimal
\* characters (code points), tabulated for the byte strings of Items.
sha256_hexdigest(data) ==
    CASE data = <<103,111,111,103,108,101>> ->   \* 'google': bbdefa2950f49882f295b1285d4fa9dec45fc4144bfb07ee6acc68762d12c2e3
           <<98,98,100,101,102,97,50,57,53,48,102,52,57,56,56,50,102,50,57,53,98,49,50,56,53,100,52,
             102,97,57,100,101,99,52,53,102,99,52,49,52,52,98,102,98,48,55,101,101,54,97,99,99,54,56,
             55,54,50,100,49,50,99,50,101,51>>
      [] data = <<111,112,101,110,97,105>> ->   \* 'openai': 7d3194f79e645c42e4396dda38be04766810ec6a00d00aced3ffc2a0a1f1a9ef
           <<55,100,51,49,57,52,102,55,57,101,54,52,53,99,52,50,101,52,51,57,54,100,100,97,51,56,98,
             101,48,52,55,54,54,56,49,48,101,99,54,97,48,48,100,48,48,97,99,101,100,51,102,102,99,50,
             97,48,97,49,102,49,97,57,101,102>>
      [] data = <<109,105,99,114,111,115,111,102,116>> ->   \* 'microsoft': 9fbf261b62c1d7c00db73afb81dd97fdf20b3442e36e338cb9359b856a03bdc8
           <<57,102,98,102,50,54,49,98,54,50,99,49,100,55,99,48,48,100,98,55,51,97,102,98,56,49,100,
             100,57,55,102,100,102,50,48,98,51,52,52,50,101,51,54,101,51,51,56,99,98,57,51,53,57,98,
             56,53,54,97,48,51,98,100,99,56>>
      [] data = <<49>> ->   \* '1': 6b86b273ff34fce19d6b804eff5a3f5747ada4eaa22f1d49c01e52ddb7875b4b
           <<54,98,56,54,98,50,55,51,102,102,51,52,102,99,101,49,57,100,54,98,56,48,52,101,102,102,
             53,97,51,102,53,55,52,55,97,100,97,52,101,97,97,50,50,102,49,100,52,57,99,48,49,101,53,
             50,100,100,98,55,56,55,53,98,52,98>>
      [] data = <<195,169>> ->   \* U+00E9: 4a99557e4033c3539de2eb65472017cad5f9557f7a0625a09f1c3f6e2ba69c4c
           <<52,97,57,57,53,53,55,101,52,48,51,51,99,51,53,51,57,100,101,50,101,98,54,53,52,55,50,
             48,49,55,99,97,100,53,102,57,53,53,55,102,55,97,48,54,50,53,97,48,57,102,49,99,51,102,54,
             101,50,98,97,54,57,99,52,99>>
      [] OTHER -> <<>>

-----------------------------------------------------------------------------
\* class BloomFilter

\* init_size with another default than the source's
init_size_other_default(args) == IF args = <<>> THEN DemoSize ELSE args[1]

\* __init__(self, size): the fields of the new object
init_size(args) == IF args = <<>> THEN DefaultSize ELSE args[1]

\* init_bit_arrays filling the lists with 1 instead of 0
init_bit_arrays_ones(sz) == [i \in 0 .. (NumArrays - 1) |-> list_repeat(1, sz)]

init_bit_arrays(sz) == [i \in 0 .. (NumArrays - 1) |-> list_repeat(0, sz)]

\* hashes_body telling an item that is not a str from its string form: its
\* digests are taken in another order
hashes_body_typed(sz, item) ==
    LET item_str == encode_utf8(str(item))
    IN  IF item_str.exc # "none" THEN [exc |-> item_str.exc, val |-> <<>>]
        ELSE
        LET hash1 == int16_mod(md5_hexdigest(item_str.val), sz)
            hash2 == int16_mod(sha1_hexdigest(item_str.val), sz)
            hash3 == int16_mod(sha256_hexdigest(item_str.val), sz)
        IN  IF hash1.exc # "none" THEN [exc |-> hash1.exc, val |-> <<>>]
            ELSE IF hash2.exc # "none" THEN [exc |-> hash2.exc, val |-> <<>>]
            ELSE IF hash3.exc # "none" THEN [exc |-> hash3.exc, val |-> <<>>]
            ELSE IF item.kind = "str"
                 THEN [exc |-> "none", val |-> list3(hash1.val, hash2.val, hash3.val)]
                 ELSE [exc |-> "none", val |-> list3(hash3.val, hash1.val, hash2.val)]

\* The body of _hashes for self.size = sz: [exc, val], val the list
\* [hash1, hash2, hash3]
hashes_body(sz, item) ==
    LET item_str == encode_utf8(str(item))
    IN  IF item_str.exc # "none" THEN [exc |-> item_str.exc, val |-> <<>>]
        ELSE
        LET hash1 == int16_mod(md5_hexdigest(item_str.val), sz)
            hash2 == int16_mod(sha1_hexdigest(item_str.val), sz)
            hash3 == int16_mod(sha256_hexdigest(item_str.val), sz)
        IN  IF hash1.exc # "none" THEN [exc |-> hash1.exc, val |-> <<>>]
            ELSE IF hash2.exc # "none" THEN [exc |-> hash2.exc, val |-> <<>>]
            ELSE IF hash3.exc # "none" THEN [exc |-> hash3.exc, val |-> <<>>]
            ELSE [exc |-> "none", val |-> list3(hash1.val, hash2.val, hash3.val)]

\* hashes_body over the sizes and items of the model, computed once
hashes_table == [sz \in Sizes |-> [item \in Items |-> hashes_body(sz, item)]]

\* _hashes made to depend on the bit state: once the item's first cell is set,
\* the positions come back rotated
_hashes_stateful(item) ==
    LET h == hashes_table[size][item]
    IN  IF h.exc = "none" /\ index_ok(bit_arrays[0], h.val[0])
           /\ bit_arrays[0][index_norm(bit_arrays[0], h.val[0])] = 1
        THEN [exc |-> "none", val |-> list3(h.val[1], h.val[2], h.val[0])]
        ELSE h

\* _hashes(self, item)
_hashes(item) == hashes_table[size][item]

\* set_cell writing every position into the first array (the index forgotten)
set_cell_first_array(arrays, index, hash_val) ==
    [arrays EXCEPT ![0][index_norm(arrays[0], hash_val)] = 1]

\* set_cell rebuilding the array with only the new cell set
set_cell_rebuild(arrays, index, hash_val) ==
    [arrays EXCEPT ![index] =
        [p \in DOMAIN @ |-> IF p = index_norm(@, hash_val) THEN 1 ELSE 0]]

\* set_cell flipping the cell instead of setting it
set_cell_toggle(arrays, index, hash_val) ==
    [arrays EXCEPT ![index][index_norm(arrays[index], hash_val)] = 1 - @]

\* set_cell writing the position into every array, not only its own
set_cell_all_arrays(arrays, index, hash_val) ==
    [i \in DOMAIN arrays |->
        [arrays[i] EXCEPT ![index_norm(arrays[i], hash_val)] = 1]]

\* self.bit_arrays[index][hash_val] = 1
set_cell(arrays, index, hash_val) ==
    [arrays EXCEPT ![index][index_norm(arrays[index], hash_val)] = 1]

\* The loop of add from position `index` of the enumeration on:
\* [exc, arrays], arrays the bit arrays when the loop ends or raises.
RECURSIVE add_loop(_, _, _)
add_loop(arrays, hs, index) ==
    IF index >= len(hs) THEN [exc |-> "none", arrays |-> arrays]
    ELSE IF ~index_ok(arrays[index], hs[index])
         THEN [exc |-> "IndexError", arrays |-> arrays]
    ELSE add_loop(set_cell(arrays, index, hs[index]), hs, index + 1)

\* The body of add on bit arrays `arrays`: [exc, arrays, hs]
add_body(arrays, item) ==
    LET h == _hashes(item)
    IN  IF h.exc # "none" THEN [exc |-> h.exc, arrays |-> arrays, hs |-> <<>>]
        ELSE LET r == add_loop(arrays, h.val, 0)
             IN  [exc |-> r.exc, arrays |-> r.arrays, hs |-> h.val]

\* check_loop answering True as soon as one cell is set (any instead of all)
RECURSIVE check_loop_any(_, _, _)
check_loop_any(arrays, hs, index) ==
    IF index >= len(hs) THEN [exc |-> "none", val |-> "False"]
    ELSE IF ~index_ok(arrays[index], hs[index])
         THEN [exc |-> "IndexError", val |-> "None"]
    ELSE IF arrays[index][index_norm(arrays[index], hs[index])] = 1
         THEN [exc |-> "none", val |-> "True"]
    ELSE check_loop_any(arrays, hs, index + 1)

\* The loop of check from position `index` of the enumeration on: [exc, val]
RECURSIVE check_loop(_, _, _)
check_loop(arrays, hs, index) ==
    IF index >= len(hs) THEN [exc |-> "none", val |-> "True"]
    ELSE IF ~index_ok(arrays[index], hs[index])
         THEN [exc |-> "IndexError", val |-> "None"]
    ELSE IF arrays[index][index_norm(arrays[index], hs[index])] = 0
         THEN [exc |-> "none", val |-> "False"]
    ELSE check_loop(arrays, hs, index + 1)

\* The body of check on bit arrays `arrays`: [exc, val, hs]
check_body(arrays, item) ==
    LET h == _hashes(item)
    IN  IF h.exc # "none" THEN [exc |-> h.exc, val |-> "None", hs |-> <<>>]
        ELSE LET r == check_loop(arrays, h.val, 0)
             IN  [exc |-> r.exc, val |-> r.val, hs |-> h.val]

\* The shared layout of the design notes: one bit array of `sz` cells, all 0
shared_init(sz) == list_repeat(0, sz)

\* add in the shared layout from position `index` of the enumeration on: every
\* position is set in the one array. [exc, bits]
RECURSIVE shared_add_loop(_, _, _)
shared_add_loop(bits, hs, index) ==
    IF index >= len(hs) THEN [exc |-> "none", bits |-> bits]
    ELSE IF ~index_ok(bits, hs[index]) THEN [exc |-> "IndexError", bits |-> bits]
    ELSE shared_add_loop([bits EXCEPT ![index_norm(bits, hs[index])] = 1],
                         hs, index + 1)

\* add in the shared layout: the bits it leaves
shared_add(bits, item) ==
    LET h == _hashes(item)
    IN  IF h.exc # "none" THEN bits ELSE shared_add_loop(bits, h.val, 0).bits

\* check in the shared layout from position `index` on: every position is read
\* in the one array. [exc, val]
RECURSIVE shared_check_loop(_, _, _)
shared_check_loop(bits, hs, index) ==
    IF index >= len(hs) THEN [exc |-> "none", val |-> "True"]
    ELSE IF ~index_ok(bits, hs[index]) THEN [exc |-> "IndexError", val |-> "None"]
    ELSE IF bits[index_norm(bits, hs[index])] = 0
         THEN [exc |-> "none", val |-> "False"]
    ELSE shared_check_loop(bits, hs, index + 1)

\* check in the shared layout: [exc, val]
shared_check(bits, item) ==
    LET h == _hashes(item)
    IN  IF h.exc # "none" THEN [exc |-> h.exc, val |-> "None"]
        ELSE shared_check_loop(bits, h.val, 0)

\* BloomFilter(...) with arguments `args`
__init__(args) ==
    /\ ctor_args = args
    /\ size = init_size(args)
    /\ bit_arrays = init_bit_arrays(init_size(args))
    /\ op = <<"__init__">>
    /\ ret = "None"
    /\ error = "none"
    /\ hashes = <<>>
    /\ added = {}
    /\ pre_added = {}
    /\ shared_bits = shared_init(init_size(args))

\* add(self, item)
add(item) ==
    LET r == add_body(bit_arrays, item)
    IN  /\ bit_arrays' = r.arrays
        /\ op' = <<"add", item>>
        /\ ret' = "None"
        /\ error' = r.exc
        /\ hashes' = r.hs
        /\ added' = IF r.exc = "none" THEN added \cup {item} ELSE added
        /\ pre_added' = added
        /\ shared_bits' = shared_add(shared_bits, item)
        /\ UNCHANGED <<size, ctor_args>>

\* check that also writes the cells it looks at, as add does
check_writing(item) ==
    LET r == check_body(bit_arrays, item)
        w == add_body(bit_arrays, item)
    IN  /\ bit_arrays' = w.arrays
        /\ op' = <<"check", item>>
        /\ ret' = r.val
        /\ error' = r.exc
        /\ hashes' = r.hs
        /\ pre_added' = added
        /\ UNCHANGED <<size, ctor_args, added, shared_bits>>

\* check(self, item)
check(item) ==
    LET r == check_body(bit_arrays, item)
    IN  /\ op' = <<"check", item>>
        /\ ret' = r.val
        /\ error' = r.exc
        /\ hashes' = r.hs
        /\ pre_added' = added
        /\ UNCHANGED <<size, bit_arrays, ctor_args, added, shared_bits>>

CtorArgs == {<<>>} \cup {<<sz>> : sz \in Sizes}

Init == \E args \in CtorArgs : __init__(args)

Next ==
    \/ \E item \in Items : add(item)
    \/ \E item \in Items : check(item)

Spec == Init /\ [][Next]_vars

-----------------------------------------------------------------------------
\* Properties.

\* The call made last was add / check
is_add == Len(op) = 2 /\ op[1] = "add"
is_check == Len(op) = 2 /\ op[1] = "check"

\* The item has a UTF-8 encoding (str(item).encode('utf-8') does not raise)
encodable(item) == encode_utf8(str(item)).exc = "none"

\* What check(item) returns in the current state
check_value(item) == check_body(bit_arrays, item).val

\* The bit arrays add(item) leaves when called in the current state / on `arrays`
after_add(arrays, item) == add_body(arrays, item).arrays

\* C1. No false negatives: once add(x) has completed, check(x) returns True in
\* every later state, whatever else has been added; so a check that returned
\* False was of an item never added.
NoFalseNegatives ==
    /\ \A x \in added : check_body(bit_arrays, x) =
           [exc |-> "none", val |-> "True", hs |-> _hashes(x).val]
    /\ is_check /\ op[2] \in added => ret = "True" /\ error = "none"
    /\ is_check /\ ret = "False" => op[2] \notin added

\* The demonstration of the source: size 50, "google" and "openai" added,
\* check("google") is True while check("microsoft") would be False.
NoFalseNegativesWitness ==
    /\ size = DemoSize
    /\ added = {Google, Openai}
    /\ op = <<"check", Google>>
    /\ ret = "True"
    /\ check_value(Microsoft) = "False"

\* C2. Construction validates the capacity: a size <= 0 makes the constructor
\* fail with InvalidCapacity and yield no filter; a size >= 1 succeeds.
ConstructionValidatesCapacity ==
    op = <<"__init__">> =>
        IF size <= 0
        THEN error = "InvalidCapacity" /\ bit_arrays = <<>>
        ELSE error = "none"

\* C3. add and check have no failure mode: on every filter the constructor
\* returned, add and check of an item that has an encoding raise nothing.
AddCheckNeverRaise ==
    (is_add \/ is_check) /\ encodable(op[2]) => error = "none"

\* C4. Empty-filter correctness: on a filter of size >= 1 on which no add has
\* completed, check returns False for every item that has an encoding, and
\* True for no item at all.
EmptyFilterChecksFalse ==
    added = {} /\ size >= 1 =>
        /\ \A x \in Items : check_value(x) # "True"
        /\ \A x \in Items : encodable(x) =>
               check_body(bit_arrays, x).exc = "none" /\ check_value(x) = "False"
        /\ is_check /\ encodable(op[2]) => ret = "False" /\ error = "none"

EmptyFilterChecksFalseWitness ==
    /\ is_check
    /\ added = {}
    /\ size >= 1
    /\ encodable(op[2])
    /\ ret = "False"

\* C5. Monotonicity: in every step a cell that is 1 stays 1, and a check that
\* would return True before the step would return True after it.
Monotonicity ==
    [][ /\ \A i \in DOMAIN bit_arrays : \A p \in DOMAIN bit_arrays[i] :
              bit_arrays[i][p] = 1 =>
                  /\ i \in DOMAIN bit_arrays'
                  /\ p \in DOMAIN bit_arrays'[i]
                  /\ bit_arrays'[i][p] = 1
        /\ \A x \in Items :
              check_value(x) = "True" => check_value(x)' = "True"
      ]_vars

\* An add has set cells on a filter that already held items, and every item
\* added earlier still checks True.
MonotonicityWitness ==
    /\ is_add
    /\ error = "none"
    /\ pre_added # {}
    /\ op[2] \notin pre_added
    /\ \E i \in DOMAIN bit_arrays : \E p \in DOMAIN bit_arrays[i] :
           bit_arrays[i][p] = 1 /\ p # hashes[i]
    /\ \A x \in pre_added : check_value(x) = "True"

\* C6. Idempotence of insertion: add(x) of an item already added changes no
\* cell, and in every state add(x) twice leaves the cells add(x) once leaves.
AddIdempotent ==
    [][ /\ Len(op') = 2 /\ op'[1] = "add" /\ op'[2] \in added =>
              bit_arrays' = bit_arrays
        /\ \A x \in Items :
              after_add(after_add(bit_arrays, x), x) = after_add(bit_arrays, x)
      ]_vars

\* The call made last was add(x) of an item added before.
AddIdempotentWitness ==
    /\ is_add
    /\ error = "none"
    /\ op[2] \in pre_added
    /\ size >= 1

\* C7. check is a pure read: a check step leaves size and every cell of every
\* bit array as they were, whether it returns True or False.
CheckPureRead ==
    [][ Len(op') = 2 /\ op'[1] = "check" =>
            size' = size /\ bit_arrays' = bit_arrays ]_vars

\* A check returned False early: the cell of the first array was set, a later
\* one was not.
CheckPureReadWitness ==
    /\ is_check
    /\ error = "none"
    /\ ret = "False"
    /\ bit_arrays[0][hashes[0]] = 1
    /\ op[2] \notin added

\* C8. Determinism: the positions _hashes computes for an item do not change
\* with the bit state (no step changes them, and the positions a call computed
\* are those a call would compute now), and a check changes the result of no
\* check: the value it returned is the value check returns when repeated.
Determinism ==
    [][ /\ \A x \in Items : _hashes(x)' = _hashes(x)
        /\ (is_add \/ is_check) /\ error = "none" => hashes = _hashes(op[2]).val
        /\ Len(op') = 2 /\ op'[1] = "check" =>
              /\ \A x \in Items : check_value(x)' = check_value(x)
              /\ \A x \in Items : op'[2] = x =>
                     ret' = check_value(x) /\ ret' = check_value(x)'
      ]_vars

\* A check was made of an item whose first cell is set, with no add since the
\* state before it.
DeterminismWitness ==
    /\ is_check
    /\ error = "none"
    /\ added # {}
    /\ pre_added = added
    /\ bit_arrays[0][hashes[0]] = 1
    /\ ret = "True"

\* C9. In-range indices: on a filter with size >= 1 the three positions of
\* every item that has an encoding lie in 0 .. size-1, so each is a valid index
\* of its bit array and no add or check raises IndexError.
HashesInRange ==
    size >= 1 =>
        /\ \A x \in Items : encodable(x) =>
               /\ _hashes(x).exc = "none"
               /\ DOMAIN _hashes(x).val = 0 .. 2
               /\ \A i \in 0 .. 2 :
                      /\ _hashes(x).val[i] \in 0 .. (size - 1)
                      /\ _hashes(x).val[i] \in DOMAIN bit_arrays[i]
        /\ (is_add \/ is_check) /\ error = "none" =>
               \A i \in 0 .. 2 : hashes[i] \in 0 .. (size - 1)
        /\ error # "IndexError"

\* add("google") on the filter of size 50 wrote cells 12, 35 and 31.
HashesInRangeWitness ==
    /\ size = DemoSize
    /\ op = <<"add", Google>>
    /\ hashes = list3(12, 35, 31)
    /\ bit_arrays[0][12] = 1 /\ bit_arrays[1][35] = 1 /\ bit_arrays[2][31] = 1

\* C10. Construction result: a filter constructed with a size >= 1 has three
\* arrays of `size` cells, all 0, and a filter constructed without a size is
\* the filter constructed with size 100.
ConstructionResult ==
    op = <<"__init__">> =>
        /\ size >= 1 =>
               /\ DOMAIN bit_arrays = 0 .. 2
               /\ \A i \in 0 .. 2 :
                      /\ DOMAIN bit_arrays[i] = 0 .. (size - 1)
                      /\ \A p \in 0 .. (size - 1) : bit_arrays[i][p] = 0
        /\ ctor_args # <<>> => size = ctor_args[1]
        /\ ctor_args = <<>> =>
               /\ size = 100
               /\ bit_arrays = [i \in 0 .. 2 |-> [p \in 0 .. 99 |-> 0]]

\* The filter constructed without a size, before any call.
ConstructionResultWitness ==
    /\ op = <<"__init__">>
    /\ ctor_args = <<>>
    /\ len(bit_arrays[0]) = 100

\* C11. Fixed capacity: after any calls, size is the value given to the
\* constructor (100 when none was given), there are exactly three bit arrays,
\* each of exactly `size` cells, and every cell holds 0 or 1.
FixedCapacity ==
    /\ size = (IF ctor_args = <<>> THEN 100 ELSE ctor_args[1])
    /\ DOMAIN bit_arrays = 0 .. 2
    /\ \A i \in 0 .. 2 :
           /\ len(bit_arrays[i]) = size
           /\ \A p \in DOMAIN bit_arrays[i] : bit_arrays[i][p] \in {0, 1}

\* C12. Items are identified by their string form: two items with the same
\* str() have the same hash positions, so once one is added the other checks
\* True and adding it changes no cell.
SameStringSameItem ==
    [][ /\ \A a \in Items : \A b \in Items : str(a) = str(b) =>
              /\ _hashes(a) = _hashes(b)
              /\ a \in added =>
                     /\ check_body(bit_arrays, b).exc = "none"
                     /\ check_value(b) = "True"
                     /\ after_add(bit_arrays, b) = bit_arrays
        /\ \A a \in added :
              Len(op') = 2 /\ str(op'[2]) = str(a) =>
                  /\ bit_arrays' = bit_arrays
                  /\ op'[1] = "check" => ret' = "True"
      ]_vars

\* check("1") returned True on a filter to which only the int 1 was added.
SameStringSameItemWitness ==
    /\ op = <<"check", StrOne>>
    /\ added = {IntOne}
    /\ ret = "True"
    /\ size >= 2

\* What check(item) returns in the shared layout in the current state
shared_check_value(item) == shared_check(shared_bits, item).val

\* C13 as claimed. Layout equivalence: after every sequence of adds, check(x)
\* returns the same in the shared layout (one array indexed by all three
\* positions) as in the layout of three arrays, for every item x.
LayoutsEquivalent ==
    \A x \in Items : shared_check_value(x) = check_value(x)

\* C13 as amended. The shared layout answers True wherever the layout of three
\* arrays does, and the two agree on every added item and on the empty filter;
\* the shared layout may answer True where the three arrays answer False.
SharedLayoutCoversReference ==
    /\ \A x \in Items : check_value(x) = "True" => shared_check_value(x) = "True"
    /\ \A x \in added : shared_check_value(x) = check_value(x)
    /\ added = {} => \A x \in Items : shared_check_value(x) = check_value(x)
    /\ \A i \in DOMAIN bit_arrays : \A p \in DOMAIN bit_arrays[i] :
           bit_arrays[i][p] = 1 => shared_bits[p] = 1

\* After add("google") and add("openai") on a filter of size 2 the three
\* arrays answer False for "microsoft" and the shared array answers True.
SharedLayoutCoversReferenceWitness ==
    /\ size = 2
    /\ added = {Google, Openai}
    /\ check_value(Microsoft) = "False"
    /\ shared_check_value(Microsoft) = "True"
    /\ check_value(Google) = "True" /\ shared_check_value(Google) = "True"

\* The cell of array i that item x is hashed to is there and holds v
cell_is(x, i, v) ==
    /\ _hashes(x).exc = "none"
    /\ index_ok(bit_arrays[i], _hashes(x).val[i])
    /\ bit_arrays[i][index_norm(bit_arrays[i], _hashes(x).val[i])] = v

\* C15. check result: in every state and for every item x with positions
\* [h1, h2, h3], check(x) returns True exactly when bit_arrays[0][h1],
\* bit_arrays[1][h2] and bit_arrays[2][h3] are all 1, and on a filter with
\* size >= 1 it returns False exactly when one of them is 0; the value the
\* call made last returned follows the cells it read.
CheckResult ==
    /\ \A x \in Items :
           /\ check_value(x) = "True" <=> \A i \in 0 .. 2 : cell_is(x, i, 1)
           /\ size >= 1 /\ encodable(x) =>
                  (check_value(x) = "False" <=> \E i \in 0 .. 2 : cell_is(x, i, 0))
    /\ is_check /\ error = "none" =>
           /\ ret = "True" <=> \A i \in 0 .. 2 : cell_is(op[2], i, 1)
           /\ ret = "False" <=> \E i \in 0 .. 2 : cell_is(op[2], i, 0)

\* A check returned False at the third array: the cells of the first two
\* arrays were 1, the cell of the third was 0.
CheckResultWitness ==
    /\ is_check
    /\ error = "none"
    /\ ret = "False"
    /\ cell_is(op[2], 0, 1)
    /\ cell_is(op[2], 1, 1)
    /\ cell_is(op[2], 2, 0)

\* Array i holds a 1 at position p because of some added item
covered(i, p) == \E y \in added : _hashes(y).val[i] = p

\* C16. Representation invariant: cell p of array i is 1 exactly when some
\* added item y has h_i(y) = p; an add step changes array i at most at the
\* position h_i of its item; and on a filter with size >= 1 a never-added item
\* checks True exactly when each of its positions is covered in its own array.
Representation ==
    [][ /\ \A i \in DOMAIN bit_arrays : \A p \in DOMAIN bit_arrays[i] :
              bit_arrays[i][p] = 1 <=> covered(i, p)
        /\ Len(op') = 2 /\ op'[1] = "add" =>
              \A i \in DOMAIN bit_arrays : \A p \in DOMAIN bit_arrays[i] :
                  bit_arrays'[i][p] # bit_arrays[i][p] =>
                      /\ error' = "none"
                      /\ p = hashes'[i]
                      /\ bit_arrays'[i][p] = 1
        /\ size >= 1 =>
              \A x \in Items \ added : encodable(x) =>
                  (check_value(x) = "True" <=>
                       \A i \in 0 .. 2 : covered(i, _hashes(x).val[i]))
      ]_vars

\* A false positive: a check returned True for an item never added, whose
\* positions differ from those of every added item.
RepresentationWitness ==
    /\ is_check
    /\ op[2] \notin added
    /\ ret = "True"
    /\ size >= 2
    /\ \A y \in added : _hashes(y) # _hashes(op[2])

\* C17. Insertion order does not matter: in every state, add(x) then add(y)
\* leaves the cells add(y) then add(x) leaves, a repeated add in between
\* changes nothing, and the cells are those the set of added items determines.
AddOrderIrrelevant ==
    /\ \A x \in Items : \A y \in Items :
           /\ after_add(after_add(bit_arrays, x), y)
                  = after_add(after_add(bit_arrays, y), x)
           /\ after_add(after_add(after_add(bit_arrays, x), y), x)
                  = after_add(after_add(bit_arrays, x), y)
    /\ bit_arrays =
           [i \in DOMAIN bit_arrays |->
               [p \in DOMAIN bit_arrays[i] |-> IF covered(i, p) THEN 1 ELSE 0]]

\* A second item with other positions was added to a filter of size >= 2.
AddOrderIrrelevantWitness ==
    /\ is_add
    /\ error = "none"
    /\ size >= 2
    /\ Cardinality(added) >= 2
    /\ \E y \in pre_added : \A i \in 0 .. 2 : _hashes(y).val[i] # hashes[i]

====
